---- MODULE Spec2Model ----
(***************************************************************************)
(* A model of pdfsigner-rs: the incremental-update PDF signer of           *)
(* src/src/pdfsigner.rs and the byte scanners of src/src/utils.rs.         *)
(*                                                                         *)
(* A byte string is a sequence of one-character strings.  The inputs are   *)
(* ASCII, so String::from_utf8_lossy is the identity on them and byte      *)
(* offsets and character offsets coincide.                                 *)
(***************************************************************************)
EXTENDS Integers, Sequences, FiniteSets, TLC

VARIABLES
  pdf_input,   \* the caller's pdf_data argument of sign_pdf_bytes
  config,      \* SignatureConfig: reason, location, contact_info
  pc,          \* position in sign_pdf_bytes
  pdf_data,    \* pdf_data after remove_trailing_newline
  layout,      \* output as it stood when the trailer had been appended
  output,      \* the output buffer
  marks,       \* range_pos, placeholder_pos, placeholder_length_with_brackets, date_pos
  to_sign,     \* the slab handed to create_pkcs7_detached
  clock,       \* the UTC clock, in seconds of the day
  now,         \* the timestamp captured for /M
  signing_time,\* the time the CMS signer stamps as signingTime
  final_cms,   \* the DER blob returned by create_pkcs7_detached
  result,      \* "running", "Ok" or the kind of the PdfSignError returned
  steps        \* the steps taken so far, in order

vars == <<pdf_input, config, pc, pdf_data, layout, output, marks, to_sign,
          clock, now, signing_time, final_cms, result, steps>>

----------------------------------------------------------------------------
(* Byte-string helpers.                                                    *)

Rep(c, k) == [i \in 1..k |-> c]

\* `let x = v; ...`: v is computed once and F reads the result
Let(v, F(_)) == F(v)

MinOf(S) == CHOOSE x \in S : \A y \in S : x <= y

MaxOf(S) == CHOOSE x \in S : \A y \in S : x >= y

\* w == needle for the window of haystack h that starts at index i (1-based)
Matches(h, needle, i) ==
  /\ i >= 1
  /\ i + Len(needle) - 1 <= Len(h)
  /\ \A k \in 1..Len(needle) : h[i + k - 1] = needle[k]

\* the first index in from..last where needle matches, 0 for none; the
\* range is walked in runs of 512 indices, front to back
RECURSIVE FirstMatch(_, _, _, _)
FirstMatch(h, needle, from, last) ==
  IF from > last THEN 0
  ELSE LET upto == IF from + 511 < last THEN from + 511 ELSE last
           S == {i \in from..upto :
                   h[i] = needle[1]
                   /\ \A k \in 2..Len(needle) : h[i + k - 1] = needle[k]}
       IN IF S # {} THEN MinOf(S) ELSE FirstMatch(h, needle, upto + 1, last)

\* h.windows(needle.len()).position(|w| w == needle), searching from index
\* `from` on; the 1-based index of the first match, 0 for None
Find(h, needle, from) ==
  FirstMatch(h, needle, IF from < 1 THEN 1 ELSE from, Len(h) - Len(needle) + 1)

\* rposition / rfind within h[1..upto]: the last match that ends at or
\* before index upto, 0 for None
RFind(h, needle, from, upto) ==
  LET S == {i \in from..(upto - Len(needle) + 1) : Matches(h, needle, i)}
  IN IF S = {} THEN 0 ELSE MaxOf(S)

Digits == <<"0", "1", "2", "3", "4", "5", "6", "7", "8", "9">>

IsDigit(c) == \E d \in 1..10 : Digits[d] = c

DigitVal(c) == (CHOOSE d \in 1..10 : Digits[d] = c) - 1

\* char::is_whitespace on ASCII
IsSpace(c) == c \in {" ", "\n", "\r", "\t", "\f"}

\* the elements of a finite set of integers in ascending order
SortedSeq(S) ==
  [k \in 1..Cardinality(S) |->
     CHOOSE i \in S : Cardinality({j \in S : j < i}) = k - 1]

RECURSIVE DigitsVal(_)
DigitsVal(w) ==
  IF Len(w) = 0 THEN 0
  ELSE 10 * DigitsVal(SubSeq(w, 1, Len(w) - 1)) + DigitVal(w[Len(w)])

\* the digits of a word that str::parse reads as an unsigned number: an
\* optional '+' and one or more ASCII digits; <<>> when the word is not one
NumberDigits(w) ==
  LET ds == IF Len(w) > 0 /\ w[1] = "+" THEN SubSeq(w, 2, Len(w)) ELSE w
  IN IF Len(ds) > 0 /\ \A k \in 1..Len(ds) : IsDigit(ds[k]) THEN ds ELSE <<>>

\* the digits without their leading zeros
Significant(ds) ==
  LET nz == {k \in 1..Len(ds) : ds[k] # "0"}
  IN IF nz = {} THEN <<>> ELSE SubSeq(ds, MinOf(nz), Len(ds))

\* str::parse::<u32>() and str::parse::<usize>().  None is -1.  The numbers
\* of the model's inputs have at most nine significant digits, below the
\* range of both types, but for u32::MAX, which IsU32Max tells; a longer
\* number is read as None.
ParseNat(w) ==
  LET ds == NumberDigits(w)
  IN IF ds # <<>> /\ Len(Significant(ds)) <= 9
     THEN DigitsVal(Significant(ds)) ELSE -1

\* u32::MAX
u32_max ==
  <<"4", "2", "9", "4", "9", "6", "7", "2", "9", "5">>

\* the word parses to u32::MAX
IsU32Max(w) == Significant(NumberDigits(w)) = u32_max

\* format!("{}", n)
RECURSIVE DecStr(_)
DecStr(n) ==
  IF n < 10 THEN <<Digits[n + 1]>>
  ELSE DecStr(n \div 10) \o <<Digits[(n % 10) + 1]>>

\* format!("{:010}", n)
DecStr10(n) ==
  LET s == DecStr(n)
  IN IF Len(s) >= 10 THEN s ELSE Rep("0", 10 - Len(s)) \o s

\* str::trim()
Trim(s) ==
  LET keep == {i \in 1..Len(s) : ~IsSpace(s[i])}
  IN IF keep = {} THEN <<>> ELSE SubSeq(s, MinOf(keep), MaxOf(keep))

StartsWith(s, prefix) == Matches(s, prefix, 1)

\* the word of s.split_whitespace() that starts at index i
WordAt(s, i) ==
  LET ends == {j \in i..Len(s) : j = Len(s) \/ IsSpace(s[j + 1])}
  IN SubSeq(s, i, MinOf(ends))

WordStarts(s) ==
  {i \in 1..Len(s) : ~IsSpace(s[i]) /\ (i = 1 \/ IsSpace(s[i - 1]))}

\* s.split_whitespace().next(): the first word, <<>> when there is none
FirstWord(s) ==
  IF WordStarts(s) = {} THEN <<>> ELSE WordAt(s, MinOf(WordStarts(s)))

\* for word in s.split_whitespace() { if let Ok(num) = word.parse() { return
\* Some(num) } } None: the first word that parses; None is -1
FirstNumberWord(s) ==
  LET ok == {i \in WordStarts(s) : ParseNat(WordAt(s, i)) >= 0}
  IN IF ok = {} THEN -1 ELSE ParseNat(WordAt(s, MinOf(ok)))

\* str::lines(): the pieces between "\n", a "\r" before the "\n" dropped, no
\* empty last piece
Lines(s) ==
  LET nl == SortedSeq({i \in 1..Len(s) : s[i] = "\n"})
      n == Len(nl)
      from(k) == IF k = 1 THEN 1 ELSE nl[k - 1] + 1
      piece(k) ==
        LET e == nl[k] - 1
        IN IF e >= from(k) /\ s[e] = "\r" THEN SubSeq(s, from(k), e - 1)
           ELSE SubSeq(s, from(k), e)
      head == [k \in 1..n |-> piece(k)]
      rest == from(n + 1)
  IN IF rest <= Len(s) THEN Append(head, SubSeq(s, rest, Len(s))) ELSE head

----------------------------------------------------------------------------
(* src/src/utils.rs                                                        *)

RECURSIVE PopWhile(_, _)
PopWhile(pdf, c) ==
  IF Len(pdf) > 0 /\ pdf[Len(pdf)] = c
  THEN PopWhile(SubSeq(pdf, 1, Len(pdf) - 1), c)
  ELSE pdf

\* a remove_trailing_newline that pops one "\n" and one "\r" at most
remove_one_trailing_newline(pdf) ==
  LET a == IF Len(pdf) > 0 /\ pdf[Len(pdf)] = "\n"
           THEN SubSeq(pdf, 1, Len(pdf) - 1) ELSE pdf
  IN IF Len(a) > 0 /\ a[Len(a)] = "\r" THEN SubSeq(a, 1, Len(a) - 1) ELSE a

remove_trailing_newline(pdf) == PopWhile(PopWhile(pdf, "\n"), "\r")

obj_marker ==
  <<"0", " ", "o", "b", "j">>

\* overflows is TRUE when max_obj is u32::MAX, so that max_obj + 1 does
\* not fit a u32: the addition panics in a build with overflow checks and
\* wraps to 0 in one without; next_obj is the wrapped sum
get_next_object_number(pdf) ==
  Let(Lines(pdf), LAMBDA lines :
    LET obj_lines == {k \in 1..Len(lines) : Find(lines[k], obj_marker, 1) > 0}
        nums == {ParseNat(FirstWord(lines[k])) : k \in
                   {k \in obj_lines : ParseNat(FirstWord(lines[k])) >= 0}}
        max_obj == IF nums = {} THEN 0 ELSE MaxOf(nums)
    IN IF \E k \in obj_lines : IsU32Max(FirstWord(lines[k]))
       THEN [overflows |-> TRUE, next_obj |-> 0]
       ELSE [overflows |-> FALSE, next_obj |-> max_obj + 1])
sp_obj_pattern ==
  <<" ", "0", " ", "o", "b", "j">>

endobj_marker ==
  <<"e", "n", "d", "o", "b", "j">>

trailer_keyword ==
  <<"t", "r", "a", "i", "l", "e", "r">>

root_key ==
  <<"/", "R", "o", "o", "t">>

pages_key ==
  <<"/", "P", "a", "g", "e", "s">>

acroform_key ==
  <<"/", "A", "c", "r", "o", "F", "o", "r", "m">>

catalog_marker_sp ==
  <<"/", "T", "y", "p", "e", " ", "/", "C", "a", "t", "a", "l", "o", "g">>

catalog_marker_nosp ==
  <<"/", "T", "y", "p", "e", "/", "C", "a", "t", "a", "l", "o", "g">>

pages_marker_sp ==
  <<"/", "T", "y", "p", "e", " ", "/", "P", "a", "g", "e", "s">>

pages_marker_nosp ==
  <<"/", "T", "y", "p", "e", "/", "P", "a", "g", "e", "s">>

page_marker_sp ==
  <<"/", "T", "y", "p", "e", " ", "/", "P", "a", "g", "e">>

page_marker_nosp ==
  <<"/", "T", "y", "p", "e", "/", "P", "a", "g", "e">>

scan_window == 2000

\* The backward scan shared by find_catalog_by_pattern, find_pages_object
\* and find_first_page_by_pattern: the last " 0 obj" in the scan_window
\* bytes before the marker at index m, then back over the ASCII digits
\* before it.  None is -1.
ObjNumBefore(pdf, m) ==
  LET from == IF m - 1 > scan_window THEN m - scan_window ELSE 1
      p == RFind(pdf, sp_obj_pattern, from, m - 1)
      nondig == {i \in 1..(p - 1) : ~IsDigit(pdf[i])}
      num_start == IF nondig = {} THEN 1 ELSE MaxOf(nondig) + 1
  IN IF p = 0 THEN -1 ELSE ParseNat(Trim(SubSeq(pdf, num_start, p - 1)))

\* one round of the `for marker in &markers` loops: the first occurrence
\* of the marker only
ObjNumOfFirst(pdf, marker) ==
  LET m == Find(pdf, marker, 1)
  IN IF m = 0 THEN -1 ELSE ObjNumBefore(pdf, m)

find_catalog_from_trailer(pdf_str) ==
  LET trailer_pos == RFind(pdf_str, trailer_keyword, 1, Len(pdf_str))
      root_pos == Find(pdf_str, root_key, trailer_pos)
      after_root == SubSeq(pdf_str, root_pos + 5, Len(pdf_str))
  IN IF trailer_pos = 0 THEN -1
     ELSE IF root_pos = 0 THEN -1
     ELSE FirstNumberWord(after_root)

find_catalog_by_pattern(pdf) ==
  LET first == ObjNumOfFirst(pdf, catalog_marker_sp)
  IN IF first >= 0 THEN first ELSE ObjNumOfFirst(pdf, catalog_marker_nosp)

find_pages_object(pdf) ==
  LET first == ObjNumOfFirst(pdf, pages_marker_sp)
  IN IF first >= 0 THEN first ELSE ObjNumOfFirst(pdf, pages_marker_nosp)

\* format!("{} 0 obj", n)
ObjPattern(n) == DecStr(n) \o sp_obj_pattern

\* pdf_data[catalog_start..catalog_end]: from the first "<n> 0 obj" to the
\* next "endobj"; found is FALSE when either search fails
CatalogSection(pdf, obj) ==
  LET catalog_start == Find(pdf, ObjPattern(obj), 1)
      catalog_end == IF catalog_start = 0 THEN 0
                     ELSE Find(pdf, endobj_marker, catalog_start)
  IN [found |-> catalog_end > 0,
      bytes |-> IF catalog_end > 0
                THEN SubSeq(pdf, catalog_start, catalog_end - 1) ELSE <<>>]

find_pages_ref_in_catalog(pdf, catalog_obj) ==
  LET sec == CatalogSection(pdf, catalog_obj)
      pages_pos == Find(sec.bytes, pages_key, 1)
      after_pages == SubSeq(sec.bytes, pages_pos + 6, Len(sec.bytes))
  IN IF ~sec.found THEN -1
     ELSE IF pages_pos = 0 THEN -1
     ELSE FirstNumberWord(after_pages)

check_catalog_has_acroform(pdf, catalog_obj) ==
  LET sec == CatalogSection(pdf, catalog_obj)
  IN sec.found /\ Find(sec.bytes, acroform_key, 1) > 0

validate_pages_object(pdf, pages_obj) ==
  IF Find(pdf, ObjPattern(pages_obj), 1) > 0 THEN pages_obj
  ELSE find_pages_object(pdf)

\* an extract_catalog_info that returns Err when neither strategy finds the
\* Catalog
extract_catalog_info_or_err(pdf) ==
  LET from_trailer == find_catalog_from_trailer(pdf)
      by_pattern == find_catalog_by_pattern(pdf)
      found == from_trailer >= 0 \/ by_pattern >= 0
      catalog_obj == IF from_trailer >= 0 THEN from_trailer
                     ELSE IF by_pattern >= 0 THEN by_pattern ELSE 1
      in_catalog == find_pages_ref_in_catalog(pdf, catalog_obj)
      direct == find_pages_object(pdf)
      pages_ref == IF in_catalog >= 0 THEN in_catalog
                   ELSE IF direct >= 0 THEN direct ELSE 1
      validated == validate_pages_object(pdf, pages_ref)
  IN [ok |-> found,
      catalog_obj |-> catalog_obj,
      pages_ref |-> IF validated >= 0 THEN validated ELSE pages_ref,
      has_acroform |-> check_catalog_has_acroform(pdf, catalog_obj)]

\* always Ok: each lookup that fails falls back, in the end to object 1
extract_catalog_info(pdf) ==
  LET from_trailer == find_catalog_from_trailer(pdf)
      by_pattern == find_catalog_by_pattern(pdf)
      catalog_obj == IF from_trailer >= 0 THEN from_trailer
                     ELSE IF by_pattern >= 0 THEN by_pattern ELSE 1
      in_catalog == find_pages_ref_in_catalog(pdf, catalog_obj)
      direct == find_pages_object(pdf)
      pages_ref == IF in_catalog >= 0 THEN in_catalog
                   ELSE IF direct >= 0 THEN direct ELSE 1
      validated == validate_pages_object(pdf, pages_ref)
  IN [ok |-> TRUE,
      catalog_obj |-> catalog_obj,
      pages_ref |-> IF validated >= 0 THEN validated ELSE pages_ref,
      has_acroform |-> check_catalog_has_acroform(pdf, catalog_obj)]

\* the first occurrence of the marker that is not followed by 's' and has
\* an object number before it; None is -1
FirstPageOf(pdf, marker) ==
  LET hits == {m \in 1..Len(pdf) :
                 /\ Matches(pdf, marker, m)
                 /\ ~(m + Len(marker) <= Len(pdf) /\ pdf[m + Len(marker)] = "s")
                 /\ ObjNumBefore(pdf, m) >= 0}
  IN IF hits = {} THEN -1 ELSE ObjNumBefore(pdf, MinOf(hits))

find_first_page_by_pattern(pdf) ==
  LET first == FirstPageOf(pdf, page_marker_sp)
  IN IF first >= 0 THEN first ELSE FirstPageOf(pdf, page_marker_nosp)

\* Err(InvalidPdf) when no page is found
extract_first_page_info(pdf) ==
  LET first_page_obj == find_first_page_by_pattern(pdf)
  IN [ok |-> first_page_obj >= 0, first_page_obj |-> first_page_obj]

----------------------------------------------------------------------------
(* src/src/pdfsigner.rs                                                    *)

\* Rust offsets are 0-based: the byte at offset o of h is h[o + 1].

\* h[a..b]
Slice(h, a, b) == SubSeq(h, a + 1, b)

\* h[start..].windows(n).position(|w| w == needle) + start; None is -1
Pos(h, needle, start) == Find(h, needle, start + 1) - 1

\* h[at..at + Len(bytes)].copy_from_slice(bytes)
CopyFromSlice(h, at, bytes) ==
  Slice(h, 0, at) \o bytes \o Slice(h, at + Len(bytes), Len(h))

sig_size == 16000

sig_placeholder == <<"<">> \o Rep("0", sig_size) \o <<">">>

\* self._certificate.subject_cn().unwrap_or_else(|| "Unknown"), for a
\* certificate without a common name
signer_name ==
  <<"U", "n", "k", "n", "o", "w", "n">>

date_placeholder ==
  <<"D", ":">> \o
  Rep("0", 14) \o
  <<"Z">>

sig_dict(next_obj, reason, contact_info, location) ==
  DecStr(next_obj) \o
  <<" ", "0", " ", "o", "b", "j", "\n", "<", "<", "\n", "/", "T", "y", "p", "e", " ">> \o
  <<"/", "S", "i", "g", "\n", "/", "F", "i", "l", "t", "e", "r", " ", "/", "A", "d">> \o
  <<"o", "b", "e", ".", "P", "P", "K", "L", "i", "t", "e", "\n", "/", "S", "u", "b">> \o
  <<"F", "i", "l", "t", "e", "r", " ", "/", "a", "d", "b", "e", ".", "p", "k", "c">> \o
  <<"s", "7", ".", "d", "e", "t", "a", "c", "h", "e", "d", "\n", "/", "B", "y", "t">> \o
  <<"e", "R", "a", "n", "g", "e", " ", "[">> \o
  Rep("0", 7) \o
  <<" ">> \o
  Rep("0", 7) \o
  <<" ">> \o
  Rep("0", 7) \o
  <<" ">> \o
  Rep("0", 7) \o
  <<"]">> \o
  Rep(" ", 17) \o
  <<"\n", "/", "C", "o", "n", "t", "e", "n", "t", "s", " ">> \o
  sig_placeholder \o
  <<"\n", "/", "R", "e", "a", "s", "o", "n", " ", "(">> \o
  reason \o
  <<")", "\n", "/", "M", " ", "(">> \o
  date_placeholder \o
  <<")", "\n", "/", "C", "o", "n", "t", "a", "c", "t", "I", "n", "f", "o", " ", "(">> \o
  contact_info \o
  <<")", "\n", "/", "N", "a", "m", "e", " ", "(">> \o
  signer_name \o
  <<")", "\n", "/", "L", "o", "c", "a", "t", "i", "o", "n", " ", "(">> \o
  location \o
  <<")", "\n", "/", "P", "r", "o", "p", "_", "B", "u", "i", "l", "d", " ", "<", "<">> \o
  <<"\n", "/", "F", "i", "l", "t", "e", "r", " ", "<", "<", "\n", "/", "N", "a", "m">> \o
  <<"e", " ", "/", "A", "d", "o", "b", "e", ".", "P", "P", "K", "L", "i", "t", "e">> \o
  <<"\n", ">", ">", "\n", ">", ">", "\n", ">", ">", "\n", "e", "n", "d", "o", "b", "j">> \o
  <<"\n">>

acroform(next_obj) ==
  DecStr(next_obj + 1) \o
  <<" ", "0", " ", "o", "b", "j", "\n", "<", "<", "\n", "/", "T", "y", "p", "e", " ">> \o
  <<"/", "A", "c", "r", "o", "F", "o", "r", "m", "\n", "/", "S", "i", "g", "F", "l">> \o
  <<"a", "g", "s", " ", "3", "\n", "/", "F", "i", "e", "l", "d", "s", " ", "[">> \o
  DecStr(next_obj + 2) \o
  <<" ", "0", " ", "R", "]", "\n", ">", ">", "\n", "e", "n", "d", "o", "b", "j", "\n">>

sig_field(next_obj, first_page_obj) ==
  DecStr(next_obj + 2) \o
  <<" ", "0", " ", "o", "b", "j", "\n", "<", "<", "\n", "/", "T", "y", "p", "e", " ">> \o
  <<"/", "A", "n", "n", "o", "t", "\n", "/", "S", "u", "b", "t", "y", "p", "e", " ">> \o
  <<"/", "W", "i", "d", "g", "e", "t", "\n", "/", "F", "T", " ", "/", "S", "i", "g">> \o
  <<"\n", "/", "R", "e", "c", "t", " ", "[", "0", " ", "0", " ", "0", " ", "0", "]">> \o
  <<"\n", "/", "V", " ">> \o
  DecStr(next_obj) \o
  <<" ", "0", " ", "R", "\n", "/", "T", " ", "(", "S", "i", "g", "n", "a", "t", "u">> \o
  <<"r", "e", "1", ")", "\n", "/", "F", " ", "4", "\n", "/", "P", " ">> \o
  DecStr(first_page_obj) \o
  <<" ", "0", " ", "R", "\n", ">", ">", "\n", "e", "n", "d", "o", "b", "j", "\n">>

dict_open ==
  <<"<", "<">>

dict_close ==
  <<">", ">">>

type_key ==
  <<"/", "T", "y", "p", "e">>

CatalogHead(catalog_obj, pages_ref, acroform_ref) ==
  DecStr(catalog_obj) \o
  <<" ", "0", " ", "o", "b", "j", "\n", "<", "<", "\n", "/", "T", "y", "p", "e", " ">> \o
  <<"/", "C", "a", "t", "a", "l", "o", "g", "\n", "/", "P", "a", "g", "e", "s", " ">> \o
  DecStr(pages_ref) \o
  <<" ", "0", " ", "R", "\n", "/", "A", "c", "r", "o", "F", "o", "r", "m", " ">> \o
  DecStr(acroform_ref) \o
  <<" ", "0", " ", "R", "\n">>

CatalogTail ==
  <<">", ">", "\n", "e", "n", "d", "o", "b", "j", "\n">>

BasicCatalog(catalog_obj, pages_ref, acroform_ref) ==
  DecStr(catalog_obj) \o
  <<" ", "0", " ", "o", "b", "j", "\n", "<", "<", "\n", "/", "T", "y", "p", "e", " ">> \o
  <<"/", "C", "a", "t", "a", "l", "o", "g", "\n", "/", "P", "a", "g", "e", "s", " ">> \o
  DecStr(pages_ref) \o
  <<" ", "0", " ", "R", "\n", "/", "A", "c", "r", "o", "F", "o", "r", "m", " ">> \o
  DecStr(acroform_ref) \o
  <<" ", "0", " ", "R", "\n", ">", ">", "\n", "e", "n", "d", "o", "b", "j", "\n">>

\* for field in extra_fields { push_str(field); push('\n') }
RECURSIVE JoinLines(_)
JoinLines(fields) ==
  IF Len(fields) = 0 THEN <<>>
  ELSE Head(fields) \o <<"\n">> \o JoinLines(Tail(fields))

\* the trimmed lines of the dictionary that are kept as extras
ExtraFields(dict_content) ==
  LET lines == Lines(dict_content)
      trimmed == [k \in 1..Len(lines) |-> Trim(lines[k])]
      keep(t) == /\ ~StartsWith(t, type_key)
                 /\ ~StartsWith(t, pages_key)
                 /\ ~StartsWith(t, acroform_key)
                 /\ Len(t) > 0
  IN SelectSeq(trimmed, keep)

\* panics is TRUE where the slice catalog_str[dict_start + 2..dict_end]
\* is out of order
build_updated_catalog(catalog_obj, pages_ref, acroform_ref, pdf) ==
  LET sec == CatalogSection(pdf, catalog_obj)
      dict_start == Pos(sec.bytes, dict_open, 0)
      dict_end == RFind(sec.bytes, dict_close, 1, Len(sec.bytes)) - 1
      dict_content == Slice(sec.bytes, dict_start + 2, dict_end)
  IN IF sec.found /\ dict_start >= 0 /\ dict_end >= 0
     THEN IF dict_start + 2 > dict_end
          THEN [panics |-> TRUE, text |-> <<>>]
          ELSE [panics |-> FALSE,
                text |-> CatalogHead(catalog_obj, pages_ref, acroform_ref)
                         \o JoinLines(ExtraFields(dict_content))
                         \o CatalogTail]
     ELSE [panics |-> FALSE,
           text |-> BasicCatalog(catalog_obj, pages_ref, acroform_ref)]

startxref_nl ==
  <<"s", "t", "a", "r", "t", "x", "r", "e", "f", "\n">>

\* the number on the line after the last "startxref\n", 0 when there is
\* none or it does not parse
PrevXref(pdf) ==
  LET pos == RFind(pdf, startxref_nl, 1, Len(pdf)) - 1
      start == pos + Len(startxref_nl)
      end == Pos(pdf, <<"\n">>, start) - start
      num == ParseNat(Trim(Slice(pdf, start, start + end)))
  IN IF pos < 0 THEN 0
     ELSE IF Pos(pdf, <<"\n">>, start) < 0 THEN 0
     ELSE IF num >= 0 THEN num ELSE 0

\* an xref whose last two entries are exchanged
xref_table_swapped(catalog_obj, new_catalog_pos, next_obj, sig_dict_pos, acroform_pos, sig_field_pos) ==
  <<"x", "r", "e", "f", "\n", "0", " ", "1", "\n">> \o
  Rep("0", 10) \o
  <<" ", "6", "5", "5", "3", "5", " ", "f", " ", "\n">> \o
  DecStr(catalog_obj) \o
  <<" ", "1", "\n">> \o
  DecStr10(new_catalog_pos) \o
  <<" ", "0", "0", "0", "0", "0", " ", "n", " ", "\n">> \o
  DecStr(next_obj) \o
  <<" ", "3", "\n">> \o
  DecStr10(sig_dict_pos) \o
  <<" ", "0", "0", "0", "0", "0", " ", "n", " ", "\n">> \o
  DecStr10(sig_field_pos) \o
  <<" ", "0", "0", "0", "0", "0", " ", "n", " ", "\n">> \o
  DecStr10(acroform_pos) \o
  <<" ", "0", "0", "0", "0", "0", " ", "n", " ", "\n">>

xref_table(catalog_obj, new_catalog_pos, next_obj, sig_dict_pos, acroform_pos, sig_field_pos) ==
  <<"x", "r", "e", "f", "\n", "0", " ", "1", "\n">> \o
  Rep("0", 10) \o
  <<" ", "6", "5", "5", "3", "5", " ", "f", " ", "\n">> \o
  DecStr(catalog_obj) \o
  <<" ", "1", "\n">> \o
  DecStr10(new_catalog_pos) \o
  <<" ", "0", "0", "0", "0", "0", " ", "n", " ", "\n">> \o
  DecStr(next_obj) \o
  <<" ", "3", "\n">> \o
  DecStr10(sig_dict_pos) \o
  <<" ", "0", "0", "0", "0", "0", " ", "n", " ", "\n">> \o
  DecStr10(acroform_pos) \o
  <<" ", "0", "0", "0", "0", "0", " ", "n", " ", "\n">> \o
  DecStr10(sig_field_pos) \o
  <<" ", "0", "0", "0", "0", "0", " ", "n", " ", "\n">>

trailer(next_obj, prev_xref, catalog_obj, xref_start) ==
  <<"t", "r", "a", "i", "l", "e", "r", "\n", "<", "<", "\n", "/", "S", "i", "z", "e">> \o
  <<" ">> \o
  DecStr(next_obj + 3) \o
  <<"\n", "/", "P", "r", "e", "v", " ">> \o
  DecStr(prev_xref) \o
  <<"\n", "/", "R", "o", "o", "t", " ">> \o
  DecStr(catalog_obj) \o
  <<" ", "0", " ", "R", "\n", ">", ">", "\n", "s", "t", "a", "r", "t", "x", "r", "e">> \o
  <<"f", "\n">> \o
  DecStr(xref_start) \o
  <<"\n", "%", "%", "E", "O", "F", "\n">>

\* Lines 153-299: the probes and the append of the four objects, the xref
\* section and the trailer.  err is "InvalidPdf" when a probe returns Err
\* and "Panic" when build_updated_catalog's slice is out of order or, with
\* overflow_checks, when max_obj + 1 overflows.
Layout(pdf, cfg, overflow_checks) ==
  Let(get_next_object_number(pdf), LAMBDA next :
  Let(next.next_obj, LAMBDA next_obj :
  Let(extract_catalog_info(pdf), LAMBDA catalog_info :
  Let(extract_first_page_info(pdf), LAMBDA page_info :
  Let(build_updated_catalog(catalog_info.catalog_obj, catalog_info.pages_ref,
                            next_obj + 1, pdf), LAMBDA new_catalog :
    LET catalog_obj == catalog_info.catalog_obj
        first_page_obj == page_info.first_page_obj
        sig_dict_pos == Len(pdf) + 1
        sig_dict_text ==
          sig_dict(next_obj, cfg.reason, cfg.contact_info, cfg.location)
        acroform_pos == sig_dict_pos + Len(sig_dict_text)
        acroform_text == acroform(next_obj)
        sig_field_pos == acroform_pos + Len(acroform_text)
        sig_field_text == sig_field(next_obj, first_page_obj)
        new_catalog_pos == sig_field_pos + Len(sig_field_text)
        prev_xref == PrevXref(pdf)
        xref_start == new_catalog_pos + Len(new_catalog.text)
    IN IF next.overflows /\ overflow_checks
       THEN [err |-> "Panic", output |-> <<>>]
       ELSE IF ~catalog_info.ok THEN [err |-> "InvalidPdf", output |-> <<>>]
       ELSE IF ~page_info.ok THEN [err |-> "InvalidPdf", output |-> <<>>]
       ELSE IF new_catalog.panics THEN [err |-> "Panic", output |-> <<>>]
       ELSE [err |-> "none",
             output |->
               pdf \o <<"\n">> \o sig_dict_text \o acroform_text
               \o sig_field_text \o new_catalog.text
               \o xref_table(catalog_obj, new_catalog_pos, next_obj,
                             sig_dict_pos, acroform_pos, sig_field_pos)
               \o trailer(next_obj, prev_xref, catalog_obj, xref_start)])))))

\* a search string with two more trailing spaces
byte_range_search_63 ==
  <<"/", "B", "y", "t", "e", "R", "a", "n", "g", "e", " ", "[">> \o
  Rep("0", 7) \o
  <<" ">> \o
  Rep("0", 7) \o
  <<" ">> \o
  Rep("0", 7) \o
  <<" ">> \o
  Rep("0", 7) \o
  <<"]">> \o
  Rep(" ", 19)

byte_range_search ==
  <<"/", "B", "y", "t", "e", "R", "a", "n", "g", "e", " ", "[">> \o
  Rep("0", 7) \o
  <<" ">> \o
  Rep("0", 7) \o
  <<" ">> \o
  Rep("0", 7) \o
  <<" ">> \o
  Rep("0", 7) \o
  <<"]">> \o
  Rep(" ", 17)

contents_tag ==
  <<"/", "C", "o", "n", "t", "e", "n", "t", "s", " ">>

date_placeholder_bytes ==
  <<"D", ":">> \o
  Rep("0", 14) \o
  <<"Z">>

\* format!("/ByteRange [{} {} {} {}]", ...)
byte_range_str_raw(v) ==
  <<"/", "B", "y", "t", "e", "R", "a", "n", "g", "e", " ", "[">> \o
  DecStr(v[1]) \o <<" ">> \o DecStr(v[2]) \o <<" ">> \o
  DecStr(v[3]) \o <<" ">> \o DecStr(v[4]) \o <<"]">>

\* a byte_range_str that has room for seven digits a number
byte_range_str_7_digits(v) ==
  LET raw == byte_range_str_raw(v)
  IN IF \E k \in 1..4 : v[k] > 9999999
     THEN [err |-> "InvalidPdf", text |-> <<>>]
     ELSE [err |-> "none",
           text |-> raw \o Rep(" ", Len(byte_range_search) - Len(raw))]

\* Lines 347-363: the ByteRange string of the four values, padded to the
\* length of the placeholder.  padding_needed is a usize: when the raw
\* string is the longer one the subtraction panics, or wraps to a count of
\* spaces no allocation holds; the call aborts either way.
byte_range_str(v) ==
  Let(byte_range_str_raw(v), LAMBDA raw :
  Let(Len(byte_range_search) - Len(raw), LAMBDA padding_needed :
    IF padding_needed < 0 THEN [err |-> "Panic", text |-> <<>>]
    ELSE IF Len(raw \o Rep(" ", padding_needed)) # Len(byte_range_search)
    THEN [err |-> "InvalidPdf", text |-> <<>>]
    ELSE [err |-> "none", text |-> raw \o Rep(" ", padding_needed)]))

NoMarks ==
  [range_pos |-> -1, placeholder_pos |-> -1,
   placeholder_length_with_brackets |-> -1,
   byte_range_values |-> <<>>, date_pos |-> -1]

\* Lines 304-366: find the ByteRange placeholder and the Contents slot after
\* it, compute the four values and overwrite the placeholder.
PlanByteRange(out) ==
  LET byterange_placeholder_len == Len(byte_range_search)
      failed(kind) == [err |-> kind, output |-> <<>>, marks |-> NoMarks]
  IN
  Let(Pos(out, byte_range_search, 0), LAMBDA range_pos :
  IF range_pos < 0 THEN failed("InvalidPdf") ELSE
  Let(Pos(out, contents_tag, range_pos + byterange_placeholder_len),
      LAMBDA contents_tag_pos :
  IF contents_tag_pos < 0 THEN failed("InvalidPdf") ELSE
  Let(Pos(out, <<"<">>, contents_tag_pos), LAMBDA placeholder_pos :
  IF placeholder_pos < 0 THEN failed("InvalidPdf") ELSE
  Let(Pos(out, <<">">>, placeholder_pos), LAMBDA placeholder_end :
  IF placeholder_end < 0 THEN failed("InvalidPdf") ELSE
  Let((placeholder_end + 1) - placeholder_pos,
      LAMBDA placeholder_length_with_brackets :
  Let(<<0, placeholder_pos,
        placeholder_pos + placeholder_length_with_brackets,
        Len(out) - (placeholder_pos + placeholder_length_with_brackets)>>,
      LAMBDA byte_range_values :
  Let(byte_range_str(byte_range_values), LAMBDA str :
  IF str.err # "none" THEN failed(str.err)
  ELSE [err |-> "none",
        output |-> CopyFromSlice(out, range_pos, str.text),
        marks |-> [range_pos |-> range_pos,
                   placeholder_pos |-> placeholder_pos,
                   placeholder_length_with_brackets |->
                     placeholder_length_with_brackets,
                   byte_range_values |-> byte_range_values,
                   date_pos |-> -1]])))))))

\* Lines 369-375 and 400-406: the two ranges of byte_range_values
BuildToSign(out, v) ==
  Slice(out, v[1], v[1] + v[2]) \o Slice(out, v[3], v[3] + v[4])

TwoDigits(n) == <<Digits[(n \div 10) + 1], Digits[(n % 10) + 1]>>

\* now.format("%Y%m%d%H%M%S") for the second t of the day clock_day
clock_day == <<"2", "0", "2", "6", "0", "1", "1", "5">>

FormatTime(t) ==
  clock_day \o TwoDigits(t \div 3600) \o TwoDigits((t % 3600) \div 60)
  \o TwoDigits(t % 60)

\* format!("D:{}Z", ...)
date_str(t) == <<"D", ":">> \o FormatTime(t) \o <<"Z">>

\* Lines 379-397: overwrite the first date placeholder with the date
PlanDate(out, t) ==
  Let(Pos(out, date_placeholder_bytes, 0), LAMBDA date_pos :
  Let(date_str(t), LAMBDA date_bytes :
    IF date_pos < 0
    THEN [err |-> "InvalidPdf", output |-> <<>>, date_pos |-> -1]
    ELSE IF Len(date_bytes) # Len(date_placeholder_bytes)
    THEN [err |-> "InvalidPdf", output |-> <<>>, date_pos |-> -1]
    ELSE [err |-> "none",
          output |-> CopyFromSlice(out, date_pos, date_bytes),
          date_pos |-> date_pos]))

HexChars ==
  <<"0", "1", "2", "3", "4", "5", "6", "7", "8", "9", "a", "b", "c", "d", "e", "f">>

\* hex::encode
HexEncode(bytes) ==
  [i \in 1..(2 * Len(bytes)) |->
     IF i % 2 = 1 THEN HexChars[(bytes[(i + 1) \div 2] \div 16) + 1]
     ELSE HexChars[(bytes[i \div 2] % 16) + 1]]

\* a PlanContents whose size check rejects a blob that just fits
PlanContentsNoFit(out, cms, m) ==
  Let(HexEncode(cms), LAMBDA sig_hex :
    IF Len(sig_hex) >= sig_size THEN [err |-> "InvalidPdf", output |-> <<>>]
    ELSE [err |-> "none",
          output |-> CopyFromSlice(out, m.placeholder_pos,
                       <<"<">> \o sig_hex \o Rep("0", sig_size - Len(sig_hex))
                       \o <<">">>)])

\* Lines 414-441: hex-encode, check the size, pad and overwrite the slot
PlanContents(out, cms, m) ==
  Let(HexEncode(cms), LAMBDA sig_hex :
    IF Len(sig_hex) > sig_size THEN [err |-> "InvalidPdf", output |-> <<>>]
    ELSE
    Let(<<"<">> \o sig_hex \o Rep("0", sig_size - Len(sig_hex)) \o <<">">>,
        LAMBDA final_sig_hex :
      IF Len(final_sig_hex) # m.placeholder_length_with_brackets
      THEN [err |-> "InvalidPdf", output |-> <<>>]
      ELSE [err |-> "none",
            output |-> CopyFromSlice(out, m.placeholder_pos, final_sig_hex)]))

----------------------------------------------------------------------------
(* The inputs: the pdf_data and config arguments of sign_pdf_bytes, the    *)
(* clock, and the blob the CMS signer returns.                             *)

MaxTail == 2

ClockStart == 3599

MaxTicks == 1

CmsShort == 3

PdfHeader ==
  <<"%", "P", "D", "F", "-", "1", ".", "4", "\n">>

CatalogObject ==
  <<"1", " ", "0", " ", "o", "b", "j", "\n", "<", "<", "\n", "/", "T", "y", "p", "e">> \o
  <<" ", "/", "C", "a", "t", "a", "l", "o", "g", "\n", "/", "P", "a", "g", "e", "s">> \o
  <<" ", "2", " ", "0", " ", "R", "\n", "/", "L", "a", "n", "g", " ", "(", "e", "n">> \o
  <<"-", "U", "S", ")", "\n", ">", ">", "\n", "e", "n", "d", "o", "b", "j", "\n">>

PagesObject ==
  <<"2", " ", "0", " ", "o", "b", "j", "\n", "<", "<", "\n", "/", "T", "y", "p", "e">> \o
  <<" ", "/", "P", "a", "g", "e", "s", "\n", "/", "K", "i", "d", "s", " ", "[", "3">> \o
  <<" ", "0", " ", "R", "]", "\n", "/", "C", "o", "u", "n", "t", " ", "1", "\n", ">">> \o
  <<">", "\n", "e", "n", "d", "o", "b", "j", "\n">>

PageObject ==
  <<"3", " ", "0", " ", "o", "b", "j", "\n", "<", "<", "\n", "/", "T", "y", "p", "e">> \o
  <<" ", "/", "P", "a", "g", "e", "\n", "/", "P", "a", "r", "e", "n", "t", " ", "2">> \o
  <<" ", "0", " ", "R", "\n", ">", ">", "\n", "e", "n", "d", "o", "b", "j", "\n">>

\* an Info dictionary whose date was never filled in
InfoObject ==
  <<"4", " ", "0", " ", "o", "b", "j", "\n", "<", "<", "\n", "/", "C", "r", "e", "a">> \o
  <<"t", "i", "o", "n", "D", "a", "t", "e", " ", "(", "D", ":">> \o
  Rep("0", 14) \o
  <<"Z", ")", "\n", ">", ">", "\n", "e", "n", "d", "o", "b", "j", "\n">>

\* a signature dictionary prepared with the ByteRange placeholder and left unsigned
PreparedSigObject ==
  <<"4", " ", "0", " ", "o", "b", "j", "\n", "<", "<", "\n", "/", "T", "y", "p", "e">> \o
  <<" ", "/", "S", "i", "g", "\n", "/", "B", "y", "t", "e", "R", "a", "n", "g", "e">> \o
  <<" ", "[">> \o
  Rep("0", 7) \o
  <<" ">> \o
  Rep("0", 7) \o
  <<" ">> \o
  Rep("0", 7) \o
  <<" ">> \o
  Rep("0", 7) \o
  <<"]">> \o
  Rep(" ", 17) \o
  <<"\n", ">", ">", "\n", "e", "n", "d", "o", "b", "j", "\n">>

\* a prepared signature dictionary whose Contents slot is two digits long
ShortSlotSigObject ==
  <<"4", " ", "0", " ", "o", "b", "j", "\n", "<", "<", "\n", "/", "T", "y", "p", "e">> \o
  <<" ", "/", "S", "i", "g", "\n", "/", "B", "y", "t", "e", "R", "a", "n", "g", "e">> \o
  <<" ", "[">> \o
  Rep("0", 7) \o
  <<" ">> \o
  Rep("0", 7) \o
  <<" ">> \o
  Rep("0", 7) \o
  <<" ">> \o
  Rep("0", 7) \o
  <<"]">> \o
  Rep(" ", 17) \o
  <<"\n", "/", "C", "o", "n", "t", "e", "n", "t", "s", " ", "<", "0", "0", ">", "\n">> \o
  <<">", ">", "\n", "e", "n", "d", "o", "b", "j", "\n">>

XrefAndTrailer ==
  <<"x", "r", "e", "f", "\n", "0", " ", "1", "\n">> \o
  Rep("0", 10) \o
  <<" ", "6", "5", "5", "3", "5", " ", "f", " ", "\n", "t", "r", "a", "i", "l", "e">> \o
  <<"r", "\n", "<", "<", "\n", "/", "S", "i", "z", "e", " ", "5", "\n", "/", "R", "o">> \o
  <<"o", "t", " ", "1", " ", "0", " ", "R", "\n", ">", ">", "\n", "s", "t", "a", "r">> \o
  <<"t", "x", "r", "e", "f", "\n", "9", "\n", "%", "%", "E", "O", "F">>

EofOnly ==
  <<"%", "%", "E", "O", "F">>

DocMinimal == PdfHeader \o CatalogObject \o PagesObject \o PageObject \o XrefAndTrailer

DocBlankDate ==
  PdfHeader \o CatalogObject \o PagesObject \o PageObject \o InfoObject \o XrefAndTrailer

DocPrepared ==
  PdfHeader \o CatalogObject \o PagesObject \o PageObject \o PreparedSigObject
  \o XrefAndTrailer

DocShortSlot ==
  PdfHeader \o CatalogObject \o PagesObject \o PageObject \o ShortSlotSigObject
  \o XrefAndTrailer

\* neither a trailer nor a /Type /Catalog
DocNoCatalog == PdfHeader \o PagesObject \o PageObject \o EofOnly

\* no /Type /Page
DocNoPage == PdfHeader \o CatalogObject \o PagesObject \o XrefAndTrailer

Documents ==
  {DocMinimal, DocBlankDate, DocPrepared, DocShortSlot, DocNoCatalog, DocNoPage}

\* an empty dictionary under the largest object number a u32 holds
HugeObject ==
  <<"4", "2", "9", "4", "9", "6", "7", "2", "9", "5", " ", "0", " ", "o", "b", "j">> \o
  <<"\n", "<", "<", "\n", ">", ">", "\n", "e", "n", "d", "o", "b", "j", "\n">>

DocHugeObject ==
  PdfHeader \o CatalogObject \o PagesObject \o PageObject \o HugeObject
  \o XrefAndTrailer

\* no /Type /Page, and the largest object number
DocHugeNoPage ==
  PdfHeader \o CatalogObject \o PagesObject \o HugeObject \o XrefAndTrailer

\* the Catalog of CatalogObject with its dictionary on one line
CatalogObjectOneLine ==
  <<"1", " ", "0", " ", "o", "b", "j", "\n", "<", "<", " ", "/", "T", "y", "p", "e">> \o
  <<" ", "/", "C", "a", "t", "a", "l", "o", "g", " ", "/", "P", "a", "g", "e", "s">> \o
  <<" ", "2", " ", "0", " ", "R", " ", "/", "L", "a", "n", "g", " ", "(", "e", "n">> \o
  <<"-", "U", "S", ")", " ", ">", ">", "\n", "e", "n", "d", "o", "b", "j", "\n">>

DocCatalogOneLine ==
  PdfHeader \o CatalogObjectOneLine \o PagesObject \o PageObject
  \o XrefAndTrailer

\* the Catalog of CatalogObject with /Lang and /Pages on the same line
CatalogObjectTwoOnLine ==
  <<"1", " ", "0", " ", "o", "b", "j", "\n", "<", "<", "\n", "/", "T", "y", "p", "e">> \o
  <<" ", "/", "C", "a", "t", "a", "l", "o", "g", "\n", "/", "L", "a", "n", "g", " ">> \o
  <<"(", "e", "n", "-", "U", "S", ")", " ", "/", "P", "a", "g", "e", "s", " ", "2">> \o
  <<" ", "0", " ", "R", "\n", ">", ">", "\n", "e", "n", "d", "o", "b", "j", "\n">>

DocCatalogTwoOnLine ==
  PdfHeader \o CatalogObjectTwoOnLine \o PagesObject \o PageObject
  \o XrefAndTrailer

\* a damaged Catalog: its only ">>" stands before its only "<<"
CatalogObjectBrackets ==
  <<"1", " ", "0", " ", "o", "b", "j", "\n", ">", ">", "\n", "/", "T", "y", "p", "e">> \o
  <<" ", "/", "C", "a", "t", "a", "l", "o", "g", "\n", "/", "P", "a", "g", "e", "s">> \o
  <<" ", "2", " ", "0", " ", "R", "\n", "<", "<", "\n", "e", "n", "d", "o", "b", "j">> \o
  <<"\n">>

DocCatalogBrackets ==
  PdfHeader \o CatalogObjectBrackets \o PagesObject \o PageObject
  \o XrefAndTrailer

\* the minimal document with "\r" as its end-of-line marker
DocCrLineEnds ==
  [i \in 1..Len(DocMinimal) |->
     IF DocMinimal[i] = "\n" THEN "\r" ELSE DocMinimal[i]]

\* the Page as object 1, and the Pages and Catalog objects 2 and 3 opening
\* on the line of the endobj before them
InlineObjects ==
  <<"1", " ", "0", " ", "o", "b", "j", "\n", "<", "<", "\n", "/", "T", "y", "p", "e">> \o
  <<" ", "/", "P", "a", "g", "e", "\n", "/", "P", "a", "r", "e", "n", "t", " ", "2">> \o
  <<" ", "0", " ", "R", "\n", ">", ">", "\n", "e", "n", "d", "o", "b", "j", " ", "2">> \o
  <<" ", "0", " ", "o", "b", "j", "\n", "<", "<", "\n", "/", "T", "y", "p", "e", " ">> \o
  <<"/", "P", "a", "g", "e", "s", "\n", "/", "K", "i", "d", "s", " ", "[", "1", " ">> \o
  <<"0", " ", "R", "]", "\n", "/", "C", "o", "u", "n", "t", " ", "1", "\n", ">", ">">> \o
  <<"\n", "e", "n", "d", "o", "b", "j", " ", "3", " ", "0", " ", "o", "b", "j", "\n">> \o
  <<"<", "<", "\n", "/", "T", "y", "p", "e", " ", "/", "C", "a", "t", "a", "l", "o">> \o
  <<"g", "\n", "/", "P", "a", "g", "e", "s", " ", "2", " ", "0", " ", "R", "\n", ">">> \o
  <<">", "\n", "e", "n", "d", "o", "b", "j", "\n">>

XrefAndTrailerRoot3 ==
  <<"x", "r", "e", "f", "\n", "0", " ", "1", "\n">> \o
  Rep("0", 10) \o
  <<" ", "6", "5", "5", "3", "5", " ", "f", " ", "\n", "t", "r", "a", "i", "l", "e">> \o
  <<"r", "\n", "<", "<", "\n", "/", "S", "i", "z", "e", " ", "4", "\n", "/", "R", "o">> \o
  <<"o", "t", " ", "3", " ", "0", " ", "R", "\n", ">", ">", "\n", "s", "t", "a", "r">> \o
  <<"t", "x", "r", "e", "f", "\n", "9", "\n", "%", "%", "E", "O", "F">>

DocInlineObjects == PdfHeader \o InlineObjects \o XrefAndTrailerRoot3

XrefAndTrailerRoot9 ==
  <<"x", "r", "e", "f", "\n", "0", " ", "1", "\n">> \o
  Rep("0", 10) \o
  <<" ", "6", "5", "5", "3", "5", " ", "f", " ", "\n", "t", "r", "a", "i", "l", "e">> \o
  <<"r", "\n", "<", "<", "\n", "/", "S", "i", "z", "e", " ", "4", "\n", "/", "R", "o">> \o
  <<"o", "t", " ", "9", " ", "0", " ", "R", "\n", ">", ">", "\n", "s", "t", "a", "r">> \o
  <<"t", "x", "r", "e", "f", "\n", "9", "\n", "%", "%", "E", "O", "F">>

\* the trailer names object 9 as /Root, and the objects are 1, 2 and 3
DocDanglingRoot ==
  PdfHeader \o CatalogObject \o PagesObject \o PageObject \o XrefAndTrailerRoot9

\* an object 11 that holds a /Pages entry and a /Producer line
ShadowObject ==
  <<"1", "1", " ", "0", " ", "o", "b", "j", "\n", "<", "<", "\n", "/", "P", "a", "g">> \o
  <<"e", "s", " ", "3", " ", "0", " ", "R", "\n", "/", "P", "r", "o", "d", "u", "c">> \o
  <<"e", "r", " ", "(", "x", ")", "\n", ">", ">", "\n", "e", "n", "d", "o", "b", "j">> \o
  <<"\n">>

\* object 11 is defined before the Catalog, object 1
DocShadowedCatalog ==
  PdfHeader \o ShadowObject \o CatalogObject \o PagesObject \o PageObject
  \o XrefAndTrailer

\* the minimal document with "\r\n" as its end-of-line marker
DocCrLfLineEnds ==
  <<"%", "P", "D", "F", "-", "1", ".", "4", "\r", "\n", "1", " ", "0", " ", "o", "b">> \o
  <<"j", "\r", "\n", "<", "<", "\r", "\n", "/", "T", "y", "p", "e", " ", "/", "C", "a">> \o
  <<"t", "a", "l", "o", "g", "\r", "\n", "/", "P", "a", "g", "e", "s", " ", "2", " ">> \o
  <<"0", " ", "R", "\r", "\n", "/", "L", "a", "n", "g", " ", "(", "e", "n", "-", "U">> \o
  <<"S", ")", "\r", "\n", ">", ">", "\r", "\n", "e", "n", "d", "o", "b", "j", "\r", "\n">> \o
  <<"2", " ", "0", " ", "o", "b", "j", "\r", "\n", "<", "<", "\r", "\n", "/", "T", "y">> \o
  <<"p", "e", " ", "/", "P", "a", "g", "e", "s", "\r", "\n", "/", "K", "i", "d", "s">> \o
  <<" ", "[", "3", " ", "0", " ", "R", "]", "\r", "\n", "/", "C", "o", "u", "n", "t">> \o
  <<" ", "1", "\r", "\n", ">", ">", "\r", "\n", "e", "n", "d", "o", "b", "j", "\r", "\n">> \o
  <<"3", " ", "0", " ", "o", "b", "j", "\r", "\n", "<", "<", "\r", "\n", "/", "T", "y">> \o
  <<"p", "e", " ", "/", "P", "a", "g", "e", "\r", "\n", "/", "P", "a", "r", "e", "n">> \o
  <<"t", " ", "2", " ", "0", " ", "R", "\r", "\n", ">", ">", "\r", "\n", "e", "n", "d">> \o
  <<"o", "b", "j", "\r", "\n", "x", "r", "e", "f", "\r", "\n", "0", " ", "1", "\r", "\n">> \o
  Rep("0", 10) \o
  <<" ", "6", "5", "5", "3", "5", " ", "f", " ", "\r", "\n", "t", "r", "a", "i", "l">> \o
  <<"e", "r", "\r", "\n", "<", "<", "\r", "\n", "/", "S", "i", "z", "e", " ", "5", "\r">> \o
  <<"\n", "/", "R", "o", "o", "t", " ", "1", " ", "0", " ", "R", "\r", "\n", ">", ">">> \o
  <<"\r", "\n", "s", "t", "a", "r", "t", "x", "r", "e", "f", "\r", "\n", "9", "\r", "\n">> \o
  <<"%", "%", "E", "O", "F">>

\* documents of unusual shape
ShapedDocuments ==
  {DocHugeObject, DocHugeNoPage, DocCatalogOneLine, DocCatalogTwoOnLine,
   DocCatalogBrackets, DocCrLineEnds, DocInlineObjects, DocDanglingRoot,
   DocShadowedCatalog, DocCrLfLineEnds}

ReasonPlain ==
  <<"o", "k">>

\* a reason text that holds the text of the date placeholder
ReasonDate ==
  <<"D", ":">> \o
  Rep("0", 14) \o
  <<"Z">>

LocationText ==
  <<"B", "R">>

PlainConfig ==
  [reason |-> ReasonPlain, location |-> LocationText, contact_info |-> <<>>]

DateReasonConfig ==
  [reason |-> ReasonDate, location |-> LocationText, contact_info |-> <<>>]

\* the calls of sign_pdf_bytes that are checked: every document, as it is and
\* with a final "\n", under the plain config, and the minimal document under
\* the config whose reason holds the date placeholder
Calls ==
  {[pdf |-> doc \o tail, config |-> PlainConfig] :
     doc \in Documents, tail \in {<<>>, <<"\n">>}}
  \cup {[pdf |-> DocMinimal \o tail, config |-> DateReasonConfig] :
          tail \in {<<>>, <<"\n">>}}

\* every string of at most MaxTail line-end bytes
RECURSIVE TailsOfLen(_)
TailsOfLen(n) ==
  IF n = 0 THEN {<<>>}
  ELSE {t \o <<c>> : t \in TailsOfLen(n - 1), c \in {"\n", "\r"}}

Tails == UNION {TailsOfLen(n) : n \in 0..MaxTail}

\* the calls that differ in the line ends the input ends with
TailCalls ==
  {[pdf |-> doc \o tail, config |-> PlainConfig] :
     doc \in {DocMinimal, DocBlankDate, DocNoPage}, tail \in Tails}

\* the calls on the documents of unusual shape
ShapeCalls ==
  {[pdf |-> doc, config |-> PlainConfig] : doc \in ShapedDocuments}

\* Contents offsets and trailing lengths of buffers too large to write out:
\* around each power of ten from 10^5 to 10^9, and the largest c
LargeOffsets == {10 ^ k - 1 : k \in 5..9} \cup {10 ^ k : k \in 5..9}

LargeLengths == {587, 9999999, 10000000, 99999999, 100000000, 2147483647}

\* the DER blobs the signer may return: short, exactly sig_size / 2 bytes,
\* and one byte more
CmsLens == {CmsShort, sig_size \div 2, (sig_size \div 2) + 1}

CmsBlob(len) == [i \in 1..len |-> IF i = 1 THEN 48 ELSE 171]

----------------------------------------------------------------------------
(* sign_pdf_bytes, step by step.                                           *)

InitOn(calls) ==
  /\ \E call \in calls : pdf_input = call.pdf /\ config = call.config
  /\ pc = "start"
  /\ pdf_data = <<>>
  /\ layout = <<>>
  /\ output = <<>>
  /\ marks = NoMarks
  /\ to_sign = <<>>
  /\ clock = ClockStart
  /\ now = -1
  /\ signing_time = -1
  /\ final_cms = <<>>
  /\ result = "running"
  /\ steps = <<>>

Init == InitOn(Calls)

InitTails == InitOn(TailCalls)

InitShapes == InitOn(ShapeCalls)

\* sign_pdf_bytes at line 346 on a buffer whose Contents slot opens at
\* offset a and is followed by c bytes: marks holds the values of lines
\* 336-344; the buffer itself is left out
InitOffsets ==
  /\ \E a \in LargeOffsets, c \in LargeLengths :
       marks = [NoMarks EXCEPT
                  !.placeholder_pos = a,
                  !.placeholder_length_with_brackets = sig_size + 2,
                  !.byte_range_values = <<0, a, a + sig_size + 2, c>>]
  /\ pdf_input = <<>>
  /\ config = PlainConfig
  /\ pc = "at_byte_range_str"
  /\ pdf_data = <<>>
  /\ layout = <<>>
  /\ output = <<>>
  /\ to_sign = <<>>
  /\ clock = ClockStart
  /\ now = -1
  /\ signing_time = -1
  /\ final_cms = <<>>
  /\ result = "running"
  /\ steps = <<>>

\* return Err(kind): the buffer is dropped
Fail(kind) ==
  /\ pc' = "done"
  /\ result' = kind
  /\ output' = <<>>

\* line 151
StripStep ==
  /\ pc = "start"
  /\ pdf_data' = remove_trailing_newline(pdf_input)
  /\ pc' = "stripped"
  /\ steps' = Append(steps, "strip")
  /\ UNCHANGED <<pdf_input, config, layout, output, marks, to_sign, clock, now,
                 signing_time, final_cms, result>>

\* lines 153-299, in a build with or without overflow checks
LayoutStep ==
  /\ pc = "stripped"
  /\ \E overflow_checks \in BOOLEAN :
     \E l \in {Layout(pdf_data, config, overflow_checks)} :
        IF l.err = "none"
        THEN /\ output' = l.output
             /\ layout' = l.output
             /\ pc' = "laid_out"
             /\ result' = result
        ELSE /\ Fail(l.err)
             /\ layout' = layout
  /\ steps' = Append(steps, "layout")
  /\ UNCHANGED <<pdf_input, config, pdf_data, marks, to_sign, clock, now,
                 signing_time, final_cms>>

\* lines 304-375
ByteRangeStep ==
  /\ pc = "laid_out"
  /\ \E p \in {PlanByteRange(output)} :
        IF p.err = "none"
        THEN /\ output' = p.output
             /\ marks' = p.marks
             /\ to_sign' = BuildToSign(p.output, p.marks.byte_range_values)
             /\ pc' = "ranged"
             /\ result' = result
        ELSE /\ Fail(p.err)
             /\ UNCHANGED <<marks, to_sign>>
  /\ steps' = Append(steps, "byterange")
  /\ UNCHANGED <<pdf_input, config, pdf_data, layout, clock, now, signing_time,
                 final_cms>>

\* lines 379-397
DateStep ==
  /\ pc = "ranged"
  /\ now' = clock
  /\ \E p \in {PlanDate(output, clock)} :
        IF p.err = "none"
        THEN /\ output' = p.output
             /\ marks' = [marks EXCEPT !.date_pos = p.date_pos]
             /\ pc' = "dated"
             /\ result' = result
        ELSE /\ Fail(p.err)
             /\ marks' = marks
  /\ steps' = Append(steps, "date")
  /\ UNCHANGED <<pdf_input, config, pdf_data, layout, to_sign, clock,
                 signing_time, final_cms>>

\* the clock advances between chrono::Utc::now() and the signer's own
\* reading of the time
Tick ==
  /\ pc = "dated"
  /\ clock < ClockStart + MaxTicks
  /\ clock' = clock + 1
  /\ UNCHANGED <<pdf_input, config, pc, pdf_data, layout, output, marks, to_sign,
                 now, signing_time, final_cms, result, steps>>

\* a SignStep that keeps the slab built before the date was written
SignStepStaleSlab ==
  /\ pc = "dated"
  /\ signing_time' = clock
  /\ \E len \in CmsLens : final_cms' = CmsBlob(len)
  /\ pc' = "signed"
  /\ steps' = Append(steps, "sign")
  /\ UNCHANGED <<pdf_input, config, pdf_data, layout, output, marks, to_sign,
                 clock, now, result>>

\* a SignStep that runs before the date is written
SignStepBeforeDate ==
  /\ pc = "ranged"
  /\ to_sign' = BuildToSign(output, marks.byte_range_values)
  /\ signing_time' = clock
  /\ \E len \in CmsLens : final_cms' = CmsBlob(len)
  /\ pc' = "signed"
  /\ steps' = Append(steps, "sign")
  /\ UNCHANGED <<pdf_input, config, pdf_data, layout, output, marks, clock, now,
                 result>>

\* lines 400-411: rebuild to_sign and call create_pkcs7_detached, which
\* is given the slab and the config only; Pkcs7::sign stamps signingTime
\* with the time of the call
SignStep ==
  /\ pc = "dated"
  /\ to_sign' = BuildToSign(output, marks.byte_range_values)
  /\ signing_time' = clock
  /\ \/ /\ \E len \in CmsLens : final_cms' = CmsBlob(len)
        /\ pc' = "signed"
        /\ UNCHANGED <<output, result>>
     \/ /\ Fail("DecodingError")
        /\ final_cms' = final_cms
  /\ steps' = Append(steps, "sign")
  /\ UNCHANGED <<pdf_input, config, pdf_data, layout, marks, clock, now>>

\* lines 414-443
ContentsStep ==
  /\ pc = "signed"
  /\ \E p \in {PlanContents(output, final_cms, marks)} :
        IF p.err = "none"
        THEN /\ output' = p.output
             /\ pc' = "done"
             /\ result' = "Ok"
        ELSE Fail(p.err)
  /\ steps' = Append(steps, "contents")
  /\ UNCHANGED <<pdf_input, config, pdf_data, layout, marks, to_sign, clock, now,
                 signing_time, final_cms>>

\* sign_pdf_bytes as a function of its input, the build, the clock reading
\* and the signer, a function from the slab to Ok(DER blob) or Err
SignPdfBytes(pdf, cfg, overflow_checks, t, Signer(_)) ==
  LET failed(kind) == [result |-> kind, output |-> <<>>]
  IN
  Let(Layout(remove_trailing_newline(pdf), cfg, overflow_checks), LAMBDA l :
  IF l.err # "none" THEN failed(l.err) ELSE
  Let(PlanByteRange(l.output), LAMBDA b :
  IF b.err # "none" THEN failed(b.err) ELSE
  Let(PlanDate(b.output, t), LAMBDA d :
  IF d.err # "none" THEN failed(d.err) ELSE
  Let(Signer(BuildToSign(d.output, b.marks.byte_range_values)), LAMBDA cms :
  IF ~cms.ok THEN failed("DecodingError") ELSE
  Let(PlanContents(d.output, cms.der, b.marks), LAMBDA c :
  IF c.err # "none" THEN failed(c.err)
  ELSE [result |-> "Ok", output |-> c.output])))))

\* lines 347-363 alone: output holds the string that line 365 would copy
\* over the placeholder
ByteRangeStrStep ==
  /\ pc = "at_byte_range_str"
  /\ \E str \in {byte_range_str(marks.byte_range_values)} :
        /\ output' = str.text
        /\ result' = IF str.err = "none" THEN result ELSE str.err
  /\ pc' = "after_byte_range_str"
  /\ steps' = Append(steps, "byte_range_str")
  /\ UNCHANGED <<pdf_input, config, pdf_data, layout, marks, to_sign, clock,
                 now, signing_time, final_cms>>

Next ==
  \/ StripStep
  \/ LayoutStep
  \/ ByteRangeStep
  \/ DateStep
  \/ Tick
  \/ SignStep
  \/ ContentsStep

Spec == Init /\ [][Next]_vars

SpecTails == InitTails /\ [][Next]_vars

SpecShapes == InitShapes /\ [][Next]_vars

SpecOffsets == InitOffsets /\ [][ByteRangeStrStep]_vars

\* a reason text that holds the text of the ByteRange placeholder
ByteRangeReasonConfig ==
  [reason |-> byte_range_search, location |-> LocationText,
   contact_info |-> <<>>]

Configs == {PlainConfig, DateReasonConfig, ByteRangeReasonConfig}

\* out1: the buffer that a first call returns for the minimal document
\* under config c1, with a signer that returns a short blob
SignedOnce(c1) ==
  SignPdfBytes(DocMinimal, c1, FALSE, ClockStart,
               LAMBDA slab : [ok |-> TRUE, der |-> CmsBlob(CmsShort)]).output

\* the second calls: sign_pdf_bytes(out1, c2) for every c1 and c2
ResignCalls ==
  {[pdf |-> SignedOnce(c1), config |-> c2] : c1 \in Configs, c2 \in Configs}

InitResign == InitOn(ResignCalls)

SpecResign == InitResign /\ [][Next]_vars


----------------------------------------------------------------------------
(* Where the appended Signature dictionary and its three placeholders lie  *)
(* in the laid-out buffer, read off the layout and not off the searches.   *)

\* the offset of the appended Signature dictionary
NewSigDictPos == Len(pdf_data) + 1

\* the offset of its ByteRange entry
NewByteRangePos == Pos(layout, byte_range_search, NewSigDictPos)

\* the offset of the '<' that opens its Contents slot
NewContentsPos == Pos(layout, contents_tag, NewSigDictPos) + Len(contents_tag)

\* the offset of its /M date: the last date placeholder before the AcroForm
\* object (contact_info and location hold none in the calls checked)
NewDatePos ==
  RFind(layout, date_placeholder_bytes, NewSigDictPos + 1,
        NewContentsPos + sig_size + 2 + Len(config.reason) + 40) - 1

\* the four numbers of the ByteRange entry at offset p of buffer out
ByteRangeAt(out, p) ==
  Let(Slice(out, p + 12, p + Len(byte_range_search)), LAMBDA entry :
  Let(Slice(entry, 0, Find(entry, <<"]">>, 1) - 1), LAMBDA inner :
  Let(SortedSeq(WordStarts(inner)), LAMBDA ws :
    [k \in 1..Len(ws) |-> ParseNat(WordAt(inner, ws[k]))])))

----------------------------------------------------------------------------
(* The claims.                                                             *)

\* C1: every buffer that sign_pdf_bytes returns begins with the input as it
\* stood after remove_trailing_newline, byte for byte.
C1_PrefixPreserved ==
  result = "Ok" => Slice(output, 0, Len(pdf_data)) = pdf_data

\* C2: in every returned buffer the ByteRange entry of the appended
\* Signature dictionary reads [0, a, a + L, c], with a the offset of the '<'
\* of that dictionary's Contents slot, L = sig_size + 2 and a + L + c the
\* length of the buffer.
C2_ByteRangeCoverage ==
  result = "Ok" =>
    ByteRangeAt(output, NewByteRangePos) =
      <<0, NewContentsPos, NewContentsPos + sig_size + 2,
        Len(output) - (NewContentsPos + sig_size + 2)>>

\* C3: the slab handed to the signer is the returned buffer without the
\* Contents slot [a, a + L).
C3_SlabIsReturnedBuffer ==
  result = "Ok" =>
    to_sign =
      Slice(output, 0, marks.placeholder_pos)
      \o Slice(output,
               marks.placeholder_pos + marks.placeholder_length_with_brackets,
               Len(output))

\* a signing that returned a buffer, with the /M date written after the
\* first slab had been built
C3_Witness ==
  /\ result = "Ok"
  /\ marks.date_pos >= 0
  /\ Len(to_sign) + marks.placeholder_length_with_brackets = Len(output)
  /\ output # layout


StepOrder == <<"strip", "layout", "byterange", "date", "sign", "contents">>

InPlaceholders(o, range_pos, date_pos, contents_pos) ==
  \/ range_pos <= o /\ o < range_pos + Len(byte_range_search)
  \/ date_pos <= o /\ o < date_pos + Len(date_placeholder_bytes)
  \/ contents_pos <= o /\ o < contents_pos + sig_size + 2

\* C5: the returned buffer is as long as the initial layout and differs
\* from it only inside the ByteRange placeholder, the /M date placeholder
\* and the Contents slot of the appended Signature dictionary.
C5_OnlyPlaceholdersChange ==
  result = "Ok" =>
    /\ Len(output) = Len(layout)
    /\ Let(NewByteRangePos, LAMBDA range_pos :
       Let(NewDatePos, LAMBDA date_pos :
       Let(NewContentsPos, LAMBDA contents_pos :
         \A i \in 1..Len(output) :
           output[i] # layout[i] =>
             InPlaceholders(i - 1, range_pos, date_pos, contents_pos))))

\* C6: the date in the /M entry of the appended Signature dictionary is the
\* signingTime of the CMS signature, to the second.
C6_DateIsSigningTime ==
  result = "Ok" =>
    Slice(output, NewDatePos, NewDatePos + Len(date_placeholder_bytes))
      = date_str(signing_time)

\* the signer of the run as a function: the blob it returned for the slab it
\* was given, and another blob for any other slab
SameSigner(slab) ==
  IF signing_time # -1 /\ slab = to_sign
  THEN [ok |-> result # "DecodingError", der |-> final_cms]
  ELSE [ok |-> TRUE, der |-> <<0>>]

\* C7: signing the input with "\n\n" appended, with the same signer and the
\* same clock reading, gives the same result in either build: the same
\* buffer or the same error.
C7_TrailingNewlinesIgnored ==
  pc = "done" =>
    \A overflow_checks \in BOOLEAN :
    \A twin \in {SignPdfBytes(pdf_input \o <<"\n", "\n">>, config,
                              overflow_checks,
                              IF now >= 0 THEN now ELSE clock, SameSigner)} :
      twin.result = result /\ twin.output = output

\* a buffer was returned for an input that ended in line ends
C7_Witness == result = "Ok" /\ Len(pdf_data) < Len(pdf_input)

\* C8: remove_trailing_newline returns a prefix of its input that ends in
\* neither "\n" nor "\r", so that applying it again changes nothing.
C8_StripsAllLineEnds ==
  pc # "start" =>
    /\ pdf_data = SubSeq(pdf_input, 1, Len(pdf_data))
    /\ Len(pdf_data) > 0 => pdf_data[Len(pdf_data)] \notin {"\n", "\r"}
    /\ remove_trailing_newline(pdf_data) = pdf_data

\* the Contents slot of the returned buffer, brackets included
ReturnedSlot ==
  Slice(output, marks.placeholder_pos,
        marks.placeholder_pos + marks.placeholder_length_with_brackets)

\* the size boundary, with the kind of error a blob that is too large gives
SizeBoundary(too_large_kind) ==
  pc = "done" /\ final_cms # <<>> =>
    /\ (/\ Len(final_cms) = sig_size \div 2
        /\ marks.placeholder_length_with_brackets = sig_size + 2)
         => /\ result = "Ok"
            /\ ReturnedSlot = <<"<">> \o HexEncode(final_cms) \o <<">">>
    /\ Len(final_cms) > sig_size \div 2
         => result = too_large_kind /\ output = <<>>

NoCatalogFound ==
  /\ find_catalog_from_trailer(pdf_data) < 0
  /\ find_catalog_by_pattern(pdf_data) < 0

\* C10 as stated: when neither strategy finds the Catalog, the signing fails
\* with InvalidPdf.
C10_NoCatalogIsInvalidPdf ==
  pc = "done" /\ NoCatalogFound => result = "InvalidPdf"

\* C10 as amended: when neither strategy finds the Catalog,
\* extract_catalog_info still returns Ok, with object 1 as the Catalog: the
\* signing does not fail with InvalidPdf unless no first page is found, and
\* the trailer of the layout it builds names /Root 1.
C10_NoCatalogFallsBackToOne ==
  Len(steps) >= 2 /\ NoCatalogFound =>
    /\ Let(extract_catalog_info(pdf_data), LAMBDA catalog_info :
         catalog_info.ok /\ catalog_info.catalog_obj = 1)
    /\ layout # <<>> => find_catalog_from_trailer(layout) = 1
    /\ (Len(steps) = 2 /\ result = "InvalidPdf")
         => ~extract_first_page_info(pdf_data).ok

\* a buffer was returned for an input in which no Catalog is found
C10_Witness == result = "Ok" /\ NoCatalogFound

\* /Type /Page or /Type/Page, not followed by 's', stands at index m of pdf
PageMarkerAt(pdf, m) ==
  \E marker \in {page_marker_sp, page_marker_nosp} :
    /\ Matches(pdf, marker, m)
    /\ ~(m + Len(marker) <= Len(pdf) /\ pdf[m + Len(marker)] = "s")

\* the input holds no page marker
NoFirstPage == \A m \in 1..Len(pdf_data) : ~PageMarkerAt(pdf_data, m)

\* C11: when the input holds no /Type /Page or /Type/Page other than ones
\* followed by 's', the signing ends with InvalidPdf and the CMS signer was
\* never called.
C11_NoPageIsInvalidPdf ==
  (pc = "done" /\ NoFirstPage) => (result = "InvalidPdf" /\ signing_time = -1)

\* one of the offsets a, a + L and c is over 9,999,999
OverSevenDigits == \E k \in 2..4 : marks.byte_range_values[k] > 9999999

byte_range_key ==
  <<"/", "B", "y", "t", "e", "R", "a", "n", "g", "e", " ", "[">>

\* the /ByteRange line of the appended Signature dictionary as the layout
\* holds it, from the key to the end of the line
EmittedByteRangeLine ==
  Let(Pos(layout, byte_range_key, NewSigDictPos), LAMBDA p :
    Slice(layout, p, Pos(layout, <<"\n">>, p)))

\* the placeholder emitted, the string searched for and the string written
\* back are each n bytes long, the last one padded with spaces
PlaceholderLengths(n) ==
  /\ Len(byte_range_search) = n
  /\ layout # <<>> =>
       Len(EmittedByteRangeLine) = n /\ EmittedByteRangeLine = byte_range_search
  /\ (marks.range_pos >= 0 /\ output # <<>>) =>
       Let(byte_range_str_raw(marks.byte_range_values), LAMBDA raw :
         /\ Len(raw) <= n
         /\ Slice(output, marks.range_pos, marks.range_pos + n)
              = raw \o Rep(" ", n - Len(raw)))

\* C13 as stated: the three strings are 63 bytes long.
C13_PlaceholderIs63Bytes == PlaceholderLengths(63)

\* C13 as amended: the three strings are 61 bytes long: the 44 bytes of
\* "/ByteRange [0000000 0000000 0000000 0000000]" and 17 spaces.
C13_PlaceholderIs61Bytes == PlaceholderLengths(61)

\* a buffer was returned with the ByteRange written into the appended
\* dictionary
C13_Witness == result = "Ok" /\ marks.range_pos = NewByteRangePos

\* the number of places of h where needle stands
Count(h, needle) == Cardinality({i \in 1..Len(h) : Matches(h, needle, i)})

\* the replacement Catalog of the layout: the last definition of the
\* object that the new trailer names as /Root, up to its endobj
NewCatalog ==
  Let(RFind(layout, ObjPattern(find_catalog_from_trailer(layout)),
            NewSigDictPos + 1, Len(layout)), LAMBDA start :
    SubSeq(layout, start, Find(layout, endobj_marker, start) - 1))

lang_entry ==
  <<"/", "L", "a", "n", "g", " ", "(", "e", "n", "-", "U", "S", ")">>

\* C14: when the input Catalog holds the entry /Lang (en-US), whatever the
\* lines of its dictionary, the replacement Catalog holds that entry after
\* its /AcroForm entry, and holds one /Type, one /Pages and one /AcroForm.
C14_ExtrasCarriedOver ==
  (layout # <<>> /\ Find(pdf_data, lang_entry, 1) > 0) =>
    Let(NewCatalog, LAMBDA catalog :
      /\ Find(catalog, acroform_key, 1) > 0
      /\ Find(catalog, lang_entry, Find(catalog, acroform_key, 1)) > 0
      /\ Count(catalog, type_key) = 1
      /\ Count(catalog, pages_key) = 1
      /\ Count(catalog, acroform_key) = 1)

fields_key ==
  <<"/", "F", "i", "e", "l", "d", "s", " ", "[">>

ft_sig_entry ==
  <<"/", "F", "T", " ", "/", "S", "i", "g">>

\* the numbers k for which the text holds `key k 0 R`, read as the probes
\* read a reference: the first number after the first occurrence of key
RefAfter(text, key) ==
  Let(Find(text, key, 1), LAMBDA at :
    IF at = 0 THEN -1
    ELSE FirstNumberWord(SubSeq(text, at + Len(key), Len(text))))

\* the words between "/Fields [" and the next "]" of the text
FieldsWords(text) ==
  Let(Find(text, fields_key, 1), LAMBDA at :
    IF at = 0 THEN <<>>
    ELSE Let(SubSeq(text, at + Len(fields_key),
                    Find(text, <<"]">>, at) - 1), LAMBDA inner :
           Let(SortedSeq(WordStarts(inner)), LAMBDA ws :
             [k \in 1..Len(ws) |-> WordAt(inner, ws[k])])))

\* the Catalog in buf references an AcroForm object whose /Fields holds one
\* reference, to an object with /FT /Sig; objects are opened as the probes
\* open them
HasOneSigField(buf, catalog) ==
  Let(RefAfter(catalog, acroform_key), LAMBDA form_obj :
    /\ form_obj >= 0
    /\ Let(FieldsWords(CatalogSection(buf, form_obj).bytes), LAMBDA words :
         /\ Len(words) = 3
         /\ words[2] = <<"0">> /\ words[3] = <<"R">>
         /\ ParseNat(words[1]) >= 0
         /\ Find(CatalogSection(buf, ParseNat(words[1])).bytes,
                 ft_sig_entry, 1) > 0))

\* C15: probing a returned buffer with extract_catalog_info gives the
\* catalog_obj and pages_ref of the input, and the Catalog that the probe
\* opens references an AcroForm object with one field, a /FT /Sig widget.
C15_RoundTrip ==
  result = "Ok" =>
    Let(extract_catalog_info(pdf_data), LAMBDA info :
    Let(extract_catalog_info(output), LAMBDA probe :
      /\ probe.catalog_obj = info.catalog_obj
      /\ probe.pages_ref = info.pages_ref
      /\ probe.has_acroform
      /\ HasOneSigField(output,
                        CatalogSection(output, probe.catalog_obj).bytes)))

\* the variants of PdfSignError
ErrorKinds ==
  {"IoError", "InvalidCertificate", "InvalidPdf", "SigningError",
   "IcpBrasilValidationError", "TimestampError", "NetworkError",
   "DecodingError", "RsaError", "AwsS3Error"}

\* C16: a signing call ends with Ok and a buffer or with an error of
\* PdfSignError and no buffer; it never aborts, and max_obj + 1 never
\* overflows.
C16_NeverAborts ==
  /\ result \in {"running", "Ok"} \cup ErrorKinds
  /\ result = "Ok" => output # <<>>
  /\ result \in ErrorKinds => output = <<>>
  /\ pc # "start" => ~get_next_object_number(pdf_data).overflows

\* the number written in the digits that end just before index p of pdf;
\* -1 when no digit stands there
NumberEndingAt(pdf, p) ==
  LET nondig == {i \in 1..(p - 1) : ~IsDigit(pdf[i])}
      num_start == IF nondig = {} THEN 1 ELSE MaxOf(nondig) + 1
  IN ParseNat(SubSeq(pdf, num_start, p - 1))

\* the object numbers n for which `n 0 obj` stands somewhere in pdf
DefinedObjects(pdf) ==
  {NumberEndingAt(pdf, p) : p \in {p \in 1..Len(pdf) :
                                    Matches(pdf, sp_obj_pattern, p)}} \ {-1}

\* C17: get_next_object_number returns one more than the largest object
\* number defined anywhere in the input, 1 when there is none.
C17_NextObjectNumber ==
  pc # "start" =>
    Let(DefinedObjects(pdf_data), LAMBDA defined :
      get_next_object_number(pdf_data).next_obj
        = IF defined = {} THEN 1 ELSE MaxOf(defined) + 1)

xref_keyword_line ==
  <<"\n", "x", "r", "e", "f", "\n">>

sig_marker ==
  <<"/", "T", "y", "p", "e", " ", "/", "S", "i", "g", "\n">>

acroform_marker ==
  <<"/", "T", "y", "p", "e", " ", "/", "A", "c", "r", "o", "F", "o", "r", "m">>

widget_marker ==
  <<"/", "S", "u", "b", "t", "y", "p", "e", " ", "/", "W", "i", "d", "g", "e", "t">>

\* the subsection header that starts at offset at of buf: its first object
\* number, and the offset of the entry after it
SubsectionAt(buf, at) ==
  LET end == Pos(buf, <<"\n">>, at)
  IN [first |-> ParseNat(FirstWord(Slice(buf, at, end))), entry |-> end + 1]

\* the offset written in the 20-byte entry at offset at of buf
EntryOffset(buf, at) == ParseNat(Slice(buf, at, at + 10))

\* The last xref section of buf, read back as a PDF reader does: the value
\* after the last startxref, the offset of the last `xref` line, and the
\* two subsections that follow the `0 1` subsection.
ReadXref(buf) ==
  Let(RFind(buf, startxref_nl, 1, Len(buf)), LAMBDA sx :
  Let(RFind(buf, xref_keyword_line, 1, Len(buf)), LAMBDA xref_start :
  Let(SubsectionAt(buf, xref_start + 29), LAMBDA first_sub :
  Let(SubsectionAt(buf, first_sub.entry + 20), LAMBDA second_sub :
    [startxref |-> PrevXref(SubSeq(buf, sx, Len(buf))),
     xref_start |-> xref_start,
     first_obj |-> first_sub.first,
     first_pos |-> EntryOffset(buf, first_sub.entry),
     second_obj |-> second_sub.first,
     second_pos |-> <<EntryOffset(buf, second_sub.entry),
                      EntryOffset(buf, second_sub.entry + 20),
                      EntryOffset(buf, second_sub.entry + 40)>>]))))

\* the line `n 0 obj` begins at offset at of buf, and marker stands in the
\* object it opens
ObjectOpensAt(buf, at, n, marker) ==
  /\ buf[at] = "\n"
  /\ Matches(buf, DecStr(n) \o sp_obj_pattern \o <<"\n">>, at + 1)
  /\ Let(Pos(buf, endobj_marker, at), LAMBDA end :
       Let(Pos(buf, marker, at), LAMBDA m : 0 <= m /\ m < end))

\* C18: in the returned buffer every offset of the incremental xref is the
\* offset where the line `n 0 obj` of its object begins: the catalog entry
\* points at the replacement Catalog, the three entries of the N subsection
\* at the Signature dictionary, the AcroForm and the widget in that order;
\* and the startxref value is the offset of the new xref keyword.
C18_XrefOffsetsPointAtObjects ==
  result = "Ok" =>
    Let(ReadXref(output), LAMBDA x :
      /\ x.startxref = x.xref_start
      /\ ObjectOpensAt(output, x.first_pos, x.first_obj, catalog_marker_sp)
      /\ ObjectOpensAt(output, x.second_pos[1], x.second_obj, sig_marker)
      /\ ObjectOpensAt(output, x.second_pos[2], x.second_obj + 1,
                       acroform_marker)
      /\ ObjectOpensAt(output, x.second_pos[3], x.second_obj + 2,
                       widget_marker))

\* a signed minimal document: Catalog 1 replaced, new objects 4, 5 and 6
C18_Witness ==
  /\ result = "Ok"
  /\ pdf_data = DocMinimal
  /\ Let(ReadXref(output), LAMBDA x :
       /\ x.first_obj = 1
       /\ x.second_obj = 4
       /\ x.second_pos[1] = Len(DocMinimal) + 1
       /\ x.second_pos[1] < x.second_pos[2]
       /\ x.second_pos[2] < x.second_pos[3]
       /\ x.second_pos[3] < x.first_pos
       /\ x.first_pos < x.xref_start)

\* C19: the subsections of the incremental xref stand in ascending order of
\* their first object number: `0 1`, then the lower of catalog_obj and N,
\* then the higher.
C19_SubsectionsAscending ==
  layout # <<>> =>
    Let(ReadXref(layout), LAMBDA x :
      0 < x.first_obj /\ x.first_obj < x.second_obj)

producer_entry ==
  <<"/", "P", "r", "o", "d", "u", "c", "e", "r", " ", "(", "x", ")">>

\* the definition of object n itself: from the first `n 0 obj` that no
\* digit precedes to the next endobj; <<>> when there is none
DefinitionOf(pdf, n) ==
  LET opens == {i \in 1..Len(pdf) :
                  /\ Matches(pdf, ObjPattern(n), i)
                  /\ (i = 1 \/ ~IsDigit(pdf[i - 1]))}
      start == MinOf(opens)
      end == Find(pdf, endobj_marker, start)
  IN IF opens = {} \/ end = 0 THEN <<>> ELSE SubSeq(pdf, start, end - 1)

\* C20: when object catalog_obj is defined with a /Pages k 0 R entry,
\* extract_catalog_info returns pages_ref = k, and the replacement Catalog
\* holds a /Producer line only when that definition holds it.
C20_PagesRefFromCatalogItself ==
  pc # "start" =>
    Let(extract_catalog_info(pdf_data), LAMBDA catalog_info :
    Let(DefinitionOf(pdf_data, catalog_info.catalog_obj), LAMBDA definition :
      Find(definition, pages_key, 1) > 0 =>
        /\ catalog_info.pages_ref = RefAfter(definition, pages_key)
        /\ (layout # <<>> /\ Find(NewCatalog, producer_entry, 1) > 0)
             => Find(definition, producer_entry, 1) > 0))

startxref_keyword ==
  <<"s", "t", "a", "r", "t", "x", "r", "e", "f">>

prev_key ==
  <<"/", "P", "r", "e", "v">>

\* the number after the last place of text where key stands; -1 when key
\* stands nowhere or no number follows
LastRefAfter(text, key) ==
  Let(RFind(text, key, 1, Len(text)), LAMBDA at :
    IF at = 0 THEN -1
    ELSE FirstNumberWord(SubSeq(text, at + Len(key), Len(text))))

\* C21: for an input that has a startxref keyword, the /Prev value of the
\* new trailer is the number after the last startxref of the input, with
\* "\n" or "\r\n" after the keyword and the number.
C21_PrevIsLastStartxref ==
  (layout # <<>> /\ Find(pdf_data, startxref_keyword, 1) > 0) =>
    LastRefAfter(layout, prev_key) = LastRefAfter(pdf_data, startxref_keyword)

size_key ==
  <<"/", "S", "i", "z", "e">>

\* C22: none of N, N + 1, N + 2 is the number of an object defined in the
\* input, none of them is catalog_obj, pages_ref or first_page_obj, and the
\* /Size of the new trailer is greater than every object number of the new
\* xref section.
C22_FreshObjectNumbers ==
  layout # <<>> =>
    Let(ReadXref(layout), LAMBDA x :
    Let(extract_catalog_info(pdf_data), LAMBDA catalog_info :
    Let(LastRefAfter(layout, size_key), LAMBDA size :
      LET new_objects == {x.second_obj, x.second_obj + 1, x.second_obj + 2}
      IN /\ new_objects \cap DefinedObjects(pdf_data) = {}
         /\ new_objects \cap {catalog_info.catalog_obj, catalog_info.pages_ref,
                               extract_first_page_info(pdf_data).first_page_obj}
              = {}
         /\ \A n \in new_objects \cup {0, x.first_obj} : n < size)))

\* C23: when the input is the buffer out1 that an earlier call returned and
\* the second call returns Ok, out1 is a prefix of the returned buffer, byte
\* for byte, and the three patches of the second call lie after out1,
\* whatever text the two configs hold.
C23_EarlierSignatureIntact ==
  result = "Ok" =>
    /\ Slice(output, 0, Len(pdf_input)) = pdf_input
    /\ marks.range_pos >= Len(pdf_input)
    /\ marks.placeholder_pos >= Len(pdf_input)
    /\ marks.date_pos >= Len(pdf_input)

====
